---- MODULE Spec2Model ----
(***************************************************************************)
(* LyreBird audio stream analyzer: the capture workers, the per-stream     *)
(* bounded queues and the coordinator loop of                              *)
(* src/analysis/lyrebird_stream_analyzer.py (AudioStreamAnalyzer, main).   *)
(*                                                                         *)
(* One capture thread per stream runs capture_stream_ffmpeg; the main      *)
(* thread runs analyze_streams inside main's try block.  Every step that   *)
(* touches shared state (the running flag, a queue, the clock, the source  *)
(* process) is one action, so that every interleaving of the threads is    *)
(* explored.  The clock counts whole seconds: the warm-up sleep and a       *)
(* timed-out join take two of them, a sleep of 0.05 s or a get that times  *)
(* out after 0.5 s may or may not carry the clock into the next second.    *)
(***************************************************************************)
EXTENDS Integers, Sequences, FiniteSets, TLC

\* ------------------------------------------------------------------ bounds
\* capacity of each queue (queue.Queue(maxsize=10)), scaled down
maxsize == 2
\* frames the sources deliver, all streams together, before they block or end
MaxFrames == 3
\* largest analysis duration tried, in seconds
MaxDuration == 1

\* --------------------------------------------------------------- constants
\* self.streams, in dict (configuration) order
stream_names == <<"raw", "filtered">>
Streams == {stream_names[i] : i \in 1..Len(stream_names)}
NumStreams == Len(stream_names)
\* value of a variable that holds None
None == -1
\* chunk_size = int(sample_rate * chunk_duration), scaled down; 2 bytes/sample
chunk_size == 2
bytes_per_sample == 2
chunk_bytes == chunk_size * bytes_per_sample
\* time.sleep(2), in seconds
warmup_seconds == 2
\* t.join(timeout=2), in seconds
join_timeout == 2
\* the clock stops advancing here; the drain loop has ended by then
MaxTime == warmup_seconds + MaxDuration

VARIABLES
    running,         \* self.running
    audio_queues,    \* self.audio_queues[name]: FIFO of (timestamp, audio_data)
    results,         \* self.results[name]
    now,             \* time.time()
    duration,        \* args.duration
    cpc,             \* position of the main thread (main / analyze_streams)
    cidx,            \* index of the for loop the main thread is in
    start_time,      \* analyze_streams: start_time
    analysis_count,  \* analyze_streams: analysis_count[name]
    cframe,          \* analyze_streams: (timestamp, audio_data) just dequeued
    wpc,             \* position of each capture thread
    wframe,          \* capture_stream_ffmpeg: (timestamp, audio_data) not yet queued
    raw_len,         \* capture_stream_ffmpeg: len(raw_audio)
    process,         \* capture_stream_ffmpeg: state of the ffmpeg subprocess
    produced,        \* number of frames each source has delivered
    dequeued,        \* number of frames the coordinator took from each queue
    discarded,       \* number of frames each worker evicted and gave up
    joined,          \* number of t.join calls that have returned
    reported,        \* the chunk counts have been printed
    call             \* the function applied on its own, its arguments, its result

vars == <<running, audio_queues, results, now, duration, cpc, cidx,
          start_time, analysis_count, cframe, wpc, wframe, raw_len, process,
          produced, dequeued, discarded, joined, reported, call>>

\* the state of the analyzer and of its threads
runVars == <<running, audio_queues, results, now, duration, cpc, cidx,
             start_time, analysis_count, cframe, wpc, wframe, raw_len, process,
             produced, dequeued, discarded, joined, reported>>

coordVars == <<cpc, cidx, start_time, analysis_count, cframe, duration,
               joined, reported, call>>
workerVars == <<wpc, wframe, raw_len, process, produced, discarded>>

NoFrame == [ts |-> None, id |-> 0]

\* no function has been applied on its own
NoCall == [op |-> "none"]

EmptyResult ==
    [freq |-> None, psd |-> None, stats |-> None,
     snr_history |-> <<>>, timestamp_history |-> <<>>,
     bird_power_history |-> <<>>, low_power_history |-> <<>>]

\* AudioStreamAnalyzer.__init__ followed by main up to the try block
Init ==
    /\ running = FALSE
    /\ audio_queues = [s \in Streams |-> <<>>]
    /\ results = [s \in Streams |-> EmptyResult]
    /\ now = 0
    /\ duration \in 0..MaxDuration
    /\ cpc = "start"
    /\ cidx = 1
    /\ start_time = None
    /\ analysis_count = [s \in Streams |-> 0]
    /\ cframe = NoFrame
    /\ wpc = [s \in Streams |-> "unstarted"]
    /\ wframe = [s \in Streams |-> NoFrame]
    /\ raw_len = [s \in Streams |-> None]
    /\ process = [s \in Streams |-> "none"]
    /\ produced = [s \in Streams |-> 0]
    /\ dequeued = [s \in Streams |-> 0]
    /\ discarded = [s \in Streams |-> [evicted |-> 0, dropped |-> 0]]
    /\ joined = 0
    /\ reported = FALSE
    /\ call = NoCall

\* the interpreter is still running: daemon threads die when main returns
ProcessAlive == cpc # "exit"

Min(a, b) == IF a < b THEN a ELSE b

\* the clock after d more seconds
Elapse(t, d) == Min(t + d, MaxTime)

\* frames delivered so far by all sources
RECURSIVE SumTo(_, _)
SumTo(f, i) == IF i = 0 THEN 0 ELSE f[stream_names[i]] + SumTo(f, i - 1)
TotalProduced == SumTo(produced, NumStreams)

\* ---------------------------------------------------------- queue.Queue
\* mutant: a queue that admits an item whatever its size
PutAdmitsAlways(q) == TRUE

\* Queue.put_nowait: TRUE when the item is admitted, FALSE when Full is raised
PutAdmits(q) == Len(q) < maxsize
\* mutant: a get that takes the newest item out instead of the oldest
GetResultNewest(q) == SubSeq(q, 1, Len(q) - 1)

\* the queue after a successful get
GetResult(q) == Tail(q)

\* ------------------------------------------------ capture_stream_ffmpeg
\* subprocess.Popen(cmd, ...) succeeds: the source process runs
PopenOk(s) ==
    /\ ProcessAlive
    /\ wpc[s] = "popen"
    /\ process' = [process EXCEPT ![s] = "alive"]
    /\ wpc' = [wpc EXCEPT ![s] = "loop"]
    /\ UNCHANGED <<running, audio_queues, results, now, coordVars, wframe,
                   raw_len, produced, dequeued, discarded>>

\* subprocess.Popen raises (no ffmpeg): the except clause prints and returns
PopenFail(s) ==
    /\ ProcessAlive
    /\ wpc[s] = "popen"
    /\ wpc' = [wpc EXCEPT ![s] = "exited"]
    /\ UNCHANGED <<running, audio_queues, results, now, coordVars, wframe,
                   raw_len, process, produced, dequeued, discarded>>

\* mutant: while True -- the flag is not looked at
WorkerLoopForever(s) ==
    /\ ProcessAlive
    /\ wpc[s] = "loop"
    /\ wpc' = [wpc EXCEPT ![s] = "read"]
    /\ UNCHANGED <<running, audio_queues, results, now, coordVars, wframe,
                   raw_len, process, produced, dequeued, discarded>>

\* while self.running:
WorkerLoop(s) ==
    /\ ProcessAlive
    /\ wpc[s] = "loop"
    /\ wpc' = [wpc EXCEPT ![s] = IF running THEN "read" ELSE "terminate"]
    /\ UNCHANGED <<running, audio_queues, results, now, coordVars, wframe,
                   raw_len, process, produced, dequeued, discarded>>

\* mutant: an incomplete chunk is left as it was read
PaddedNot(n) == n

\* len(raw_audio) after the padding of an incomplete chunk
Padded(n) == IF n < chunk_bytes THEN n + (chunk_bytes - n) ELSE n

\* mutant: a zero-byte read stops the whole run
ReadStopsRun(s) ==
    /\ ProcessAlive
    /\ wpc[s] = "read"
    /\ \E n \in 0..chunk_bytes :
        IF n = 0
        THEN /\ raw_len' = [raw_len EXCEPT ![s] = 0]
             /\ wpc' = [wpc EXCEPT ![s] = "terminate"]
             /\ running' = FALSE
             /\ UNCHANGED <<wframe, produced>>
        ELSE /\ TotalProduced < MaxFrames
             /\ raw_len' = [raw_len EXCEPT ![s] = Padded(n)]
             /\ produced' = [produced EXCEPT ![s] = @ + 1]
             /\ wframe' = [wframe EXCEPT ![s] = [ts |-> now, id |-> produced[s] + 1]]
             /\ wpc' = [wpc EXCEPT ![s] = "put"]
             /\ UNCHANGED running
    /\ UNCHANGED <<audio_queues, results, now, coordVars, process, dequeued, discarded>>

\* process.stdout.read(chunk_bytes) returns n bytes; n = 0: warning and break;
\* otherwise pad, convert and stamp the frame with time.time()
Read(s) ==
    /\ ProcessAlive
    /\ wpc[s] = "read"
    /\ \E n \in 0..chunk_bytes :
        IF n = 0
        THEN /\ raw_len' = [raw_len EXCEPT ![s] = 0]
             /\ wpc' = [wpc EXCEPT ![s] = "terminate"]
             /\ UNCHANGED <<wframe, produced>>
        ELSE /\ TotalProduced < MaxFrames
             /\ raw_len' = [raw_len EXCEPT ![s] = Padded(n)]
             /\ produced' = [produced EXCEPT ![s] = @ + 1]
             /\ wframe' = [wframe EXCEPT ![s] = [ts |-> now, id |-> produced[s] + 1]]
             /\ wpc' = [wpc EXCEPT ![s] = "put"]
    /\ UNCHANGED <<running, audio_queues, results, now, coordVars, process,
                   dequeued, discarded>>

\* process.stdout.read raises (an OSError on the pipe, a MemoryError for the
\* buffer): the loop is left through "except Exception", which prints the
\* traceback and returns; process.terminate() and process.wait() are skipped
ReadRaises(s) ==
    /\ ProcessAlive
    /\ wpc[s] = "read"
    /\ wpc' = [wpc EXCEPT ![s] = "exited"]
    /\ UNCHANGED <<running, audio_queues, results, now, coordVars, wframe,
                   raw_len, process, produced, dequeued, discarded>>

\* mutant: the frame is put in at the front of the queue
PutResultFront(q, item) == <<item>> \o q

\* the queue after a successful put
PutResult(q, item) == Append(q, item)

\* mutant: one queue for all the streams, the queue of the first one
PutNowaitShared(s) ==
    /\ ProcessAlive
    /\ wpc[s] = "put"
    /\ LET t == stream_names[1]
       IN  IF PutAdmits(audio_queues[t])
           THEN /\ audio_queues' = [audio_queues EXCEPT ![t] = PutResult(@, wframe[s])]
                /\ wframe' = [wframe EXCEPT ![s] = NoFrame]
                /\ wpc' = [wpc EXCEPT ![s] = "loop"]
           ELSE /\ wpc' = [wpc EXCEPT ![s] = "full"]
                /\ UNCHANGED <<audio_queues, wframe>>
    /\ UNCHANGED <<running, results, now, coordVars, raw_len, process,
                   produced, dequeued, discarded>>

\* self.audio_queues[stream_name].put_nowait((timestamp, audio_data))
PutNowait(s) ==
    /\ ProcessAlive
    /\ wpc[s] = "put"
    /\ IF PutAdmits(audio_queues[s])
       THEN /\ audio_queues' = [audio_queues EXCEPT ![s] = PutResult(@, wframe[s])]
            /\ wframe' = [wframe EXCEPT ![s] = NoFrame]
            /\ wpc' = [wpc EXCEPT ![s] = "loop"]
       ELSE /\ wpc' = [wpc EXCEPT ![s] = "full"]
            /\ UNCHANGED <<audio_queues, wframe>>
    /\ UNCHANGED <<running, results, now, coordVars, raw_len, process,
                   produced, dequeued, discarded>>

\* except queue.Full: self.audio_queues[stream_name].get_nowait()
\* (queue.Empty is caught by the bare except)
GetNowait(s) ==
    /\ ProcessAlive
    /\ wpc[s] = "full"
    /\ IF audio_queues[s] # <<>>
       THEN /\ audio_queues' = [audio_queues EXCEPT ![s] = GetResult(@)]
            /\ discarded' = [discarded EXCEPT ![s].evicted = @ + 1]
            /\ wpc' = [wpc EXCEPT ![s] = "reput"]
       ELSE /\ wpc' = [wpc EXCEPT ![s] = "pass"]
            /\ UNCHANGED <<audio_queues, discarded>>
    /\ UNCHANGED <<running, results, now, coordVars, wframe, raw_len, process,
                   produced, dequeued>>

\* mutant: after the second put the next read starts without a test of the
\* flag
RePutThenRead(s) ==
    /\ ProcessAlive
    /\ wpc[s] = "reput"
    /\ IF PutAdmits(audio_queues[s])
       THEN /\ audio_queues' = [audio_queues EXCEPT ![s] = PutResult(@, wframe[s])]
            /\ wframe' = [wframe EXCEPT ![s] = NoFrame]
            /\ wpc' = [wpc EXCEPT ![s] = "read"]
       ELSE /\ wpc' = [wpc EXCEPT ![s] = "pass"]
            /\ UNCHANGED <<audio_queues, wframe>>
    /\ UNCHANGED <<running, results, now, coordVars, raw_len, process,
                   produced, dequeued, discarded>>

\* the second put_nowait, inside the inner try
RePut(s) ==
    /\ ProcessAlive
    /\ wpc[s] = "reput"
    /\ IF PutAdmits(audio_queues[s])
       THEN /\ audio_queues' = [audio_queues EXCEPT ![s] = PutResult(@, wframe[s])]
            /\ wframe' = [wframe EXCEPT ![s] = NoFrame]
            /\ wpc' = [wpc EXCEPT ![s] = "loop"]
       ELSE /\ wpc' = [wpc EXCEPT ![s] = "pass"]
            /\ UNCHANGED <<audio_queues, wframe>>
    /\ UNCHANGED <<running, results, now, coordVars, raw_len, process,
                   produced, dequeued, discarded>>

\* except: pass -- the new frame is not in the queue and is forgotten
Pass(s) ==
    /\ ProcessAlive
    /\ wpc[s] = "pass"
    /\ wframe' = [wframe EXCEPT ![s] = NoFrame]
    /\ discarded' = [discarded EXCEPT ![s].dropped = @ + 1]
    /\ wpc' = [wpc EXCEPT ![s] = "loop"]
    /\ UNCHANGED <<running, audio_queues, results, now, coordVars,
                   raw_len, process, produced, dequeued>>

\* process.terminate()
Terminate(s) ==
    /\ ProcessAlive
    /\ wpc[s] = "terminate"
    /\ process' = [process EXCEPT ![s] = "terminated"]
    /\ wpc' = [wpc EXCEPT ![s] = "wait"]
    /\ UNCHANGED <<running, audio_queues, results, now, coordVars, wframe,
                   raw_len, produced, dequeued, discarded>>

\* process.wait() returns; the thread prints and ends
Wait(s) ==
    /\ ProcessAlive
    /\ wpc[s] = "wait"
    /\ process' = [process EXCEPT ![s] = "reaped"]
    /\ wpc' = [wpc EXCEPT ![s] = "exited"]
    /\ UNCHANGED <<running, audio_queues, results, now, coordVars, wframe,
                   raw_len, produced, dequeued, discarded>>

\* the steps a capture thread takes on its own
WorkerInternal(s) ==
    \/ PopenOk(s) \/ WorkerLoop(s) \/ PutNowait(s) \/ GetNowait(s)
    \/ RePut(s) \/ Pass(s) \/ Terminate(s)

\* ------------------------------------------------------- analyze_streams
name(i) == stream_names[i]

\* mutant: the threads are started with the flag still unset
StartCaptureFlagUnset ==
    /\ cpc = "start"
    /\ cpc' = "spawn"
    /\ cidx' = 1
    /\ UNCHANGED <<running, audio_queues, results, now, duration, start_time,
                   analysis_count, cframe, workerVars, dequeued, joined,
                   reported, call>>

\* self.running = True
StartCapture ==
    /\ cpc = "start"
    /\ running' = TRUE
    /\ cpc' = "spawn"
    /\ cidx' = 1
    /\ UNCHANGED <<audio_queues, results, now, duration, start_time,
                   analysis_count, cframe, workerVars, dequeued, joined,
                   reported, call>>

\* for name, url in self.streams.items(): t = threading.Thread(...); t.start()
StartThread ==
    /\ cpc = "spawn"
    /\ wpc' = [wpc EXCEPT ![name(cidx)] = "popen"]
    /\ IF cidx < NumStreams
       THEN cidx' = cidx + 1 /\ cpc' = cpc
       ELSE cidx' = 1 /\ cpc' = "warmup"
    /\ UNCHANGED <<running, audio_queues, results, now, duration, start_time,
                   analysis_count, cframe, wframe, raw_len, process, produced,
                   discarded, dequeued, joined, reported, call>>

\* mutant: no wait for initial data
WarmUpSkipped ==
    /\ cpc = "warmup"
    /\ cpc' = "init"
    /\ UNCHANGED <<running, audio_queues, results, now, duration, cidx,
                   start_time, analysis_count, cframe, workerVars, dequeued,
                   joined, reported, call>>

\* time.sleep(2)
WarmUp ==
    /\ cpc = "warmup"
    /\ now' = Elapse(now, warmup_seconds)
    /\ cpc' = "init"
    /\ UNCHANGED <<running, audio_queues, results, duration, cidx, start_time,
                   analysis_count, cframe, workerVars, dequeued, joined,
                   reported, call>>

\* start_time = time.time(); analysis_count = {name: 0 ...}
RecordStart ==
    /\ cpc = "init"
    /\ start_time' = now
    /\ analysis_count' = [s \in Streams |-> 0]
    /\ cpc' = "loop"
    /\ UNCHANGED <<running, audio_queues, results, now, duration, cidx,
                   cframe, workerVars, dequeued, joined, reported, call>>

\* mutant: the loop also goes on until a frame has been analyzed
LoopConditionFrames ==
    now - start_time < duration \/ \A s \in Streams : analysis_count[s] = 0

\* the condition of the drain loop
LoopCondition == now - start_time < duration

\* while time.time() - start_time < duration:
CoordLoop ==
    /\ cpc = "loop"
    /\ IF LoopCondition
       THEN cpc' = "get" /\ cidx' = 1
       ELSE cpc' = "stop" /\ cidx' = 1
    /\ UNCHANGED <<running, audio_queues, results, now, duration, start_time,
                   analysis_count, cframe, workerVars, dequeued, joined,
                   reported, call>>

\* the position after the body of "for name in self.streams" for stream cidx
NextStream ==
    IF cidx < NumStreams
    THEN cidx' = cidx + 1 /\ cpc' = "get"
    ELSE cidx' = 1 /\ cpc' = "sleep"

\* timestamp, audio_data = self.audio_queues[name].get(timeout=0.5)
GetFrame ==
    /\ cpc = "get"
    /\ audio_queues[name(cidx)] # <<>>
    /\ cframe' = Head(audio_queues[name(cidx)])
    /\ audio_queues' = [audio_queues EXCEPT ![name(cidx)] = GetResult(@)]
    /\ dequeued' = [dequeued EXCEPT ![name(cidx)] = @ + 1]
    /\ cpc' = "analyze"
    /\ UNCHANGED <<running, results, now, duration, cidx, start_time,
                   analysis_count, workerVars, joined, reported, call>>

\* mutant: except queue.Empty: break -- the other streams are not tried
GetEmptyBreaks ==
    /\ cpc = "get"
    /\ audio_queues[name(cidx)] = <<>>
    /\ now' \in {now, Elapse(now, 1)}
    /\ cidx' = 1 /\ cpc' = "sleep"
    /\ UNCHANGED <<running, audio_queues, results, duration, start_time,
                   analysis_count, cframe, workerVars, dequeued, joined,
                   reported, call>>

\* the get times out after 0.5 s: except queue.Empty: continue
GetEmpty ==
    /\ cpc = "get"
    /\ audio_queues[name(cidx)] = <<>>
    /\ now' \in {now, Elapse(now, 1)}
    /\ NextStream
    /\ UNCHANGED <<running, audio_queues, results, duration, start_time,
                   analysis_count, cframe, workerVars, dequeued, joined,
                   reported, call>>

\* mutant: the latest results are stored, the histories are left alone
StoredLatestOnly(r, f) == [r EXCEPT !.freq = f.id, !.psd = f.id, !.stats = f.id]

\* mutant: the histories are appended to twice
StoredTwice(r, f) ==
    [freq |-> f.id, psd |-> f.id, stats |-> f.id,
     snr_history |-> r.snr_history \o <<f.id, f.id>>,
     timestamp_history |-> r.timestamp_history \o <<f.ts, f.ts>>,
     bird_power_history |-> r.bird_power_history \o <<f.id, f.id>>,
     low_power_history |-> r.low_power_history \o <<f.id, f.id>>]

\* self.results[name] after the frame f was analyzed and stored
Stored(r, f) ==
    [freq |-> f.id, psd |-> f.id, stats |-> f.id,
     snr_history |-> Append(r.snr_history, f.id),
     timestamp_history |-> Append(r.timestamp_history, f.ts),
     bird_power_history |-> Append(r.bird_power_history, f.id),
     low_power_history |-> Append(r.low_power_history, f.id)]

\* mutant: the frame is not counted
CountedNot(n) == n

\* analysis_count[name] after one more analyzed frame
Counted(n) == n + 1

\* analyze_frequency_spectrum, compute_statistics, store the latest results,
\* append to the histories, analysis_count[name] += 1
AnalyzeFrame ==
    /\ cpc = "analyze"
    /\ results' = [results EXCEPT ![name(cidx)] = Stored(@, cframe)]
    /\ analysis_count' = [analysis_count EXCEPT ![name(cidx)] = Counted(@)]
    /\ cframe' = NoFrame
    /\ NextStream
    /\ UNCHANGED <<running, audio_queues, now, duration, start_time,
                   workerVars, dequeued, joined, reported, call>>

\* time.sleep(0.05)
Sleep ==
    /\ cpc = "sleep"
    /\ now' \in {now, Elapse(now, 1)}
    /\ cpc' = "loop"
    /\ UNCHANGED <<running, audio_queues, results, duration, cidx, start_time,
                   analysis_count, cframe, workerVars, dequeued, joined,
                   reported, call>>

\* mutant: the flag is left set when the join loop starts
StopCaptureKeepsFlag ==
    /\ cpc = "stop"
    /\ cpc' = "join"
    /\ cidx' = 1
    /\ UNCHANGED <<running, audio_queues, results, now, duration, start_time,
                   analysis_count, cframe, workerVars, dequeued, joined,
                   reported, call>>

\* self.running = False
StopCapture ==
    /\ cpc = "stop"
    /\ running' = FALSE
    /\ cpc' = "join"
    /\ cidx' = 1
    /\ UNCHANGED <<audio_queues, results, now, duration, start_time,
                   analysis_count, cframe, workerVars, dequeued, joined,
                   reported, call>>

\* mutant: join() without a timeout returns only when the thread has ended
JoinReturnsNoTimeout(s) == wpc[s] = "exited"

\* t.join(timeout=2) can return: the thread has ended, or the timeout runs out
JoinReturns(s) == TRUE

\* for t in threads: t.join(timeout=2)
Join ==
    /\ cpc = "join"
    /\ JoinReturns(name(cidx))
    /\ now' = IF wpc[name(cidx)] = "exited" THEN now ELSE Elapse(now, join_timeout)
    /\ joined' = joined + 1
    /\ IF cidx < NumStreams
       THEN cidx' = cidx + 1 /\ cpc' = cpc
       ELSE cidx' = 1 /\ cpc' = "report"
    /\ UNCHANGED <<running, audio_queues, results, duration, start_time,
                   analysis_count, cframe, workerVars, dequeued, reported,
                   call>>

\* mutant: the frames left in the queues are stored before the report
ReportFlushes ==
    /\ cpc = "report"
    /\ reported' = TRUE
    /\ cpc' = "done"
    /\ results' = [s \in Streams |->
                     IF audio_queues[s] # <<>>
                     THEN Stored(results[s], Head(audio_queues[s]))
                     ELSE results[s]]
    /\ UNCHANGED <<running, audio_queues, now, duration, cidx,
                   start_time, analysis_count, cframe, workerVars, dequeued,
                   joined, call>>

\* print the chunk counts; analyze_streams returns
Report ==
    /\ cpc = "report"
    /\ reported' = TRUE
    /\ cpc' = "done"
    /\ UNCHANGED <<running, audio_queues, results, now, duration, cidx,
                   start_time, analysis_count, cframe, workerVars, dequeued,
                   joined, call>>

\* ------------------------------------------------------------------- main
\* the positions inside analyze_streams
InAnalyze == {"start", "spawn", "warmup", "init", "loop", "get", "analyze",
              "sleep", "stop", "join", "report"}

\* the positions of the drain loop (the coordinator is RUNNING)
InLoop == {"loop", "get", "analyze", "sleep"}

\* Ctrl+C inside the try block: KeyboardInterrupt unwinds analyze_streams (its
\* local variables are gone); except KeyboardInterrupt: analyzer.running = False
KeyboardInterrupt ==
    /\ cpc \in InAnalyze \cup {"done"}
    /\ running' = FALSE
    /\ cpc' = "handled"
    /\ cidx' = 1
    /\ start_time' = None
    /\ analysis_count' = [s \in Streams |-> 0]
    /\ cframe' = NoFrame
    /\ UNCHANGED <<audio_queues, results, now, duration, workerVars, dequeued,
                   joined, reported, call>>

\* main returns and the interpreter exits: the daemon threads are killed and
\* the memory of the process is gone; the source processes are not signalled
MainReturn ==
    /\ cpc \in {"done", "handled"}
    /\ cpc' = "exit"
    /\ wpc' = [s \in Streams |->
                 IF wpc[s] \in {"unstarted", "exited"} THEN wpc[s] ELSE "killed"]
    /\ running' = FALSE
    /\ audio_queues' = [s \in Streams |-> <<>>]
    /\ results' = [s \in Streams |-> EmptyResult]
    /\ cidx' = 1
    /\ start_time' = None
    /\ analysis_count' = [s \in Streams |-> 0]
    /\ cframe' = NoFrame
    /\ wframe' = [s \in Streams |-> NoFrame]
    /\ raw_len' = [s \in Streams |-> None]
    /\ UNCHANGED <<now, duration, process, produced, dequeued, discarded,
                   joined, reported, call>>

Next ==
    \/ StartCapture \/ StartThread \/ WarmUp \/ RecordStart \/ CoordLoop
    \/ GetFrame \/ GetEmpty \/ AnalyzeFrame \/ Sleep
    \/ StopCapture \/ Join \/ Report \/ MainReturn
    \/ KeyboardInterrupt
    \/ \E s \in Streams : PopenOk(s)
    \/ \E s \in Streams : PopenFail(s)
    \/ \E s \in Streams : WorkerLoop(s)
    \/ \E s \in Streams : Read(s)
    \/ \E s \in Streams : ReadRaises(s)
    \/ \E s \in Streams : PutNowait(s)
    \/ \E s \in Streams : GetNowait(s)
    \/ \E s \in Streams : RePut(s)
    \/ \E s \in Streams : Pass(s)
    \/ \E s \in Streams : Terminate(s)
    \/ \E s \in Streams : Wait(s)

Spec == Init /\ [][Next]_vars

\* the steps of the main thread inside analyze_streams
MainStep ==
    \/ StartCapture \/ StartThread \/ WarmUp \/ RecordStart \/ CoordLoop
    \/ GetFrame \/ GetEmpty \/ AnalyzeFrame \/ Sleep
    \/ StopCapture \/ Join \/ Report

\* after the KeyboardInterrupt handler main returns at once
InterruptReturn == cpc = "handled" /\ MainReturn

\* the scheduler runs every thread that can take a step; it does not make a
\* source answer (Read, ReadRaises, Wait, PopenFail), the user press Ctrl+C,
\* nor main end after DONE (plot_comparison waits for the user)
FairSpec ==
    /\ Spec
    /\ WF_vars(MainStep)
    /\ WF_vars(InterruptReturn)
    /\ \A s \in Streams : WF_vars(WorkerInternal(s))

\* ------------------------------------------- the functions on their own
\* The conversions and computations below have no state of their own: each is
\* an operator, and FunctionSpec applies them to every argument within the
\* bounds, once from the initial state, recording the call in the variable
\* call.

\* len(np.frombuffer(raw_audio, dtype=np.int16)) for nbytes bytes; None when
\* nbytes is not a multiple of the item size (ValueError)
frombuffer_len(nbytes) ==
    IF nbytes % bytes_per_sample = 0 THEN nbytes \div bytes_per_sample ELSE None

\* one pass of the worker's loop body up to the put, for a read of n bytes:
\* the length of raw_audio, the number of samples of audio_data and where the
\* worker goes next
ReadChunk(n) ==
    IF n = 0
    THEN [raw_len |-> 0, samples |-> None, next |-> "terminate"]
    ELSE LET padded == Padded(n)
             samples == frombuffer_len(padded)
         IN  [raw_len |-> padded, samples |-> samples,
              next |-> IF samples = None THEN "exited" ELSE "put"]

\* process.stdout.read(chunk_bytes) returns n bytes
CallReadChunk ==
    /\ call = NoCall
    /\ \E n \in 0..chunk_bytes :
         call' = [op |-> "read", n |-> n, out |-> ReadChunk(n)]
    /\ UNCHANGED runVars

\* the values of a byte
Byte == 0..255
\* the range of np.int16
int16_min == -32768
int16_max == 32767
\* the divisor of the normalisation
pcm_scale == 32768

\* np.frombuffer(..., dtype=np.int16) of the two bytes lo, hi (little-endian,
\* two's complement)
int16(lo, hi) ==
    LET u == lo + 256 * hi
    IN  IF u > int16_max THEN u - 2 * pcm_scale ELSE u

\* a rational number num / den, den > 0
Rat(num, den) == [num |-> num, den |-> den]
RatLess(a, b) == a.num * b.den < b.num * a.den
RatEq(a, b) == a.num * b.den = b.num * a.den

\* mutant: the code is divided by the largest code
NormalizedBy32767(c) == Rat(c, int16_max)

\* audio_data.astype(np.float32) / 32768.0: exact in float32, as the code has
\* 16 bits and the divisor is a power of two
Normalized(c) == Rat(c, pcm_scale)

\* one sample is converted: two bytes -> int16 -> float
CallConvert ==
    /\ call = NoCall
    /\ \E lo, hi \in Byte :
         call' = [op |-> "convert", lo |-> lo, hi |-> hi,
                  code |-> int16(lo, hi),
                  audio |-> Normalized(int16(lo, hi))]
    /\ UNCHANGED runVars

\* --- numbers of the statistics
\* a float that may be infinite or not-a-number; a finite one is num / den
Fin(num, den) == [kind |-> "fin", num |-> num, den |-> den]
NegInf == [kind |-> "-inf", num |-> 0, den |-> 1]
PosInf == [kind |-> "+inf", num |-> 0, den |-> 1]
NaN == [kind |-> "nan", num |-> 0, den |-> 1]

\* a - b in floating point: no exception, whatever the operands
float_sub(a, b) ==
    CASE a.kind = "nan" \/ b.kind = "nan" -> NaN
      [] a.kind = "fin" /\ b.kind = "fin" ->
            Fin(a.num * b.den - b.num * a.den, a.den * b.den)
      [] a.kind = "fin" -> IF b.kind = "-inf" THEN PosInf ELSE NegInf
      [] b.kind = "fin" -> a
      [] a.kind = b.kind -> NaN
      [] OTHER -> a

\* a / b in numpy floating point, for integers a and b: a zero divisor gives
\* an infinity or not-a-number (and a warning), no exception
float_div(a, b) ==
    CASE b > 0 -> Fin(a, b)
      [] b < 0 -> Fin(-a, -b)
      [] a > 0 -> PosInf
      [] a < 0 -> NegInf
      [] OTHER -> NaN

\* the sum of f[i] over the indices i in S
RECURSIVE SumOver(_, _)
SumOver(f, S) ==
    IF S = {} THEN 0
    ELSE LET i == CHOOSE x \in S : TRUE IN f[i] + SumOver(f, S \ {i})

\* the largest and the smallest element of a non-empty set of integers
MaxOf(S) == CHOOSE m \in S : \A x \in S : x <= m
MinOf(S) == CHOOSE m \in S : \A x \in S : m <= x

\* --- analyze_frequency_spectrum: the frequency axis
\* mutant: the axis of the full transform, fftfreq: N bins, the upper half
\* of them negative
fftfreq(N, R) ==
    [k \in 1..N |->
        IF k - 1 < (N + 1) \div 2 THEN Rat((k - 1) * R, N)
                                   ELSE Rat((k - 1 - N) * R, N)]

\* rfftfreq(N, 1/R): bin k (from 0) is k * R / N, for k = 0 .. N // 2
rfftfreq(N, R) == [k \in 1..(N \div 2 + 1) |-> Rat((k - 1) * R, N)]

\* --- compute_statistics
\* the edges of the bands, in Hz
low_edge == 1000
mid_edge == 3000
bird_edge == 8000

\* the masks, as the sets of the selected bins
low_mask(freq) == {i \in DOMAIN freq : RatLess(freq[i], Rat(low_edge, 1))}

\* mutant: the mid band closed at its upper edge
mid_mask_closed(freq) ==
    {i \in DOMAIN freq : /\ ~RatLess(freq[i], Rat(low_edge, 1))
                          /\ ~RatLess(Rat(mid_edge, 1), freq[i])}

mid_mask(freq) ==
    {i \in DOMAIN freq : /\ ~RatLess(freq[i], Rat(low_edge, 1))
                          /\ RatLess(freq[i], Rat(mid_edge, 1))}
bird_mask(freq) ==
    {i \in DOMAIN freq : /\ ~RatLess(freq[i], Rat(mid_edge, 1))
                          /\ ~RatLess(Rat(bird_edge, 1), freq[i])}
high_mask(freq) == {i \in DOMAIN freq : RatLess(Rat(bird_edge, 1), freq[i])}

\* mutant: the mean is taken without looking at the mask (numpy: the mean of
\* an empty slice is not-a-number)
band_power_unguarded(psd_db, mask) ==
    float_div(SumOver(psd_db, mask), Cardinality(mask))

\* np.mean(psd_db[mask]) if np.any(mask) else -np.inf
band_power(psd_db, mask) ==
    IF mask # {}
    THEN float_div(SumOver(psd_db, mask), Cardinality(mask))
    ELSE NegInf

\* mutant: the level goes into the logarithm as it is
add_nothing(level) == [level |-> level, floor |-> 0]

\* level + 1e-10, kept as the pair; a level is held by its square (a rational,
\* in units of one code squared): the levels are a square root and an
\* absolute value, so never negative
add_floor(level) == [level |-> level, floor |-> 1]

\* 20 * np.log10(x) for x = level + floor >= 0: -inf for x = 0
db20(x) ==
    [kind |-> IF x.level.num > 0 \/ x.floor > 0 THEN "fin" ELSE "-inf",
     of |-> x]

\* lines 239-249: rms, peak and crest factor of a frame of at least one sample
level_stats(audio_data) ==
    LET N == Len(audio_data)
        squares == [i \in 1..N |-> audio_data[i] * audio_data[i]]
        rms == Rat(SumOver(squares, 1..N), N)
        peak == Rat(MaxOf({squares[i] : i \in 1..N}), 1)
    IN  [rms |-> rms,
         rms_db |-> db20(add_floor(rms)),
         peak |-> peak,
         peak_db |-> db20(add_floor(peak)),
         crest_factor |-> [num |-> peak, den |-> add_floor(rms)],
         crest_factor_db |->
             [kind |-> IF peak.num > 0 THEN "fin" ELSE "-inf"]]

\* np.cumsum(psd_db)
cumsum(psd_db) == [i \in 1..Len(psd_db) |-> SumOver(psd_db, 1..i)]

\* np.where(cumsum >= 0.85 * cumsum[-1])[0], for a non-empty psd_db
rolloff_idx(psd_db) ==
    LET c == cumsum(psd_db)
    IN  {i \in 1..Len(psd_db) : 100 * c[i] >= 85 * c[Len(psd_db)]}

\* compute_statistics(audio_data, freq, psd_db) for a frame of at least one
\* sample and len(freq) = len(psd_db): the exception raised, if any, and the
\* dictionary returned
compute_statistics(audio_data, freq, psd_db) ==
    LET low == band_power(psd_db, low_mask(freq))
        mid == band_power(psd_db, mid_mask(freq))
        bird == band_power(psd_db, bird_mask(freq))
        high == band_power(psd_db, high_mask(freq))
        weighted == [i \in DOMAIN freq |-> freq[i].num * psd_db[i]]
        centroid ==
            LET c == float_div(SumOver(weighted, DOMAIN freq),
                               SumOver(psd_db, DOMAIN psd_db))
            IN  IF c.kind = "fin" /\ freq # <<>>
                THEN Fin(c.num, c.den * freq[1].den)
                ELSE c
    IN  IF psd_db = <<>>
        THEN [raised |-> "IndexError"]
        ELSE [raised |-> "none",
              stats |->
                [levels |-> level_stats(audio_data),
                 low_freq_power |-> low,
                 mid_freq_power |-> mid,
                 bird_freq_power |-> bird,
                 high_freq_power |-> high,
                 snr_bird_to_low |-> float_sub(bird, low),
                 snr_bird_to_mid |-> float_sub(bird, mid),
                 spectral_centroid |-> centroid,
                 spectral_rolloff |->
                    IF rolloff_idx(psd_db) # {}
                    THEN freq[MinOf(rolloff_idx(psd_db))]
                    ELSE Rat(0, 1)]]

\* the histories of a stream with nothing appended
NoHistory ==
    [snr_history |-> <<>>, timestamp_history |-> <<>>,
     bird_power_history |-> <<>>, low_power_history |-> <<>>]

\* lines 337-340: the histories of a stream after the statistics of one more
\* frame were appended
append_history(r, timestamp, stats) ==
    [snr_history |-> Append(r.snr_history, stats.snr_bird_to_low),
     timestamp_history |-> Append(r.timestamp_history, timestamp),
     bird_power_history |-> Append(r.bird_power_history, stats.bird_freq_power),
     low_power_history |-> Append(r.low_power_history, stats.low_freq_power)]

\* longest frame and largest power (dB) tried
MaxFftLen == 4
MaxDb == 1
\* the sample codes and the sample rates tried
SampleCodes == {-1, 0, 1}
SampleRates == {4, 4000, 16000, 48000}

\* lines 329-340 for one frame: compute_statistics is applied to a frame of N
\* samples and to a spectrum of N // 2 + 1 bins (or to an empty one), and
\* unless it raised the coordinator appends to the histories of the stream
CallComputeStatistics ==
    /\ call = NoCall
    /\ \E N \in 1..MaxFftLen, R \in SampleRates :
       \E bins \in {0, N \div 2 + 1} :
       \E audio_data \in [1..N -> SampleCodes],
          psd_db \in [1..bins -> -MaxDb..MaxDb] :
         LET freq == SubSeq(rfftfreq(N, R), 1, bins)
             out == compute_statistics(audio_data, freq, psd_db)
         IN  call' = [op |-> "stats", audio_data |-> audio_data,
                      freq |-> freq, psd_db |-> psd_db,
                      levels |-> level_stats(audio_data),
                      out |-> out,
                      history |->
                         IF out.raised = "none"
                         THEN append_history(NoHistory, 0, out.stats)
                         ELSE NoHistory]
    /\ UNCHANGED runVars

\* --- the frequency axis and the band masks
\* largest frame length for which the axis and its masks are computed
MaxAxisLen == 16

\* lines 210 and 253-265 for a frame of N samples at the rate R: the
\* frequency axis of the spectrum and the four band masks over it
CallBandMasks ==
    /\ call = NoCall
    /\ \E N \in 1..MaxAxisLen, R \in SampleRates :
         LET freq == rfftfreq(N, R)
         IN  call' = [op |-> "masks", N |-> N, R |-> R, freq |-> freq,
                      low |-> low_mask(freq), mid |-> mid_mask(freq),
                      bird |-> bird_mask(freq), high |-> high_mask(freq)]
    /\ UNCHANGED runVars

\* --- print_comparison
\* the default streams, in configuration order
default_streams == <<"raw", "filtered", "bird">>

\* "if stats": the dictionary is not empty (it is empty until a frame of the
\* stream was analyzed)
Truthy(stats) == stats # None

\* self.results[name] after k frames of the stream were analyzed
RECURSIVE Analyzed(_)
Analyzed(k) ==
    IF k = 0 THEN EmptyResult
    ELSE Stored(Analyzed(k - 1), [ts |-> k, id |-> k])

\* mutant: a stream without data is skipped and its neighbours are compared
compared_pairs_skipping(names, res) ==
    LET has == {k \in 1..Len(names) : Truthy(res[names[k]].stats)}
    IN  {<<names[p[1]], names[p[2]]>> :
            p \in {q \in has \X has :
                     /\ q[1] < q[2]
                     /\ \A m \in has : ~(q[1] < m /\ m < q[2])}}

\* the pairs (curr_name, next_name) for which the deltas are printed
compared_pairs(names, res) ==
    {<<names[i], names[i + 1]>> :
        i \in {k \in 1..(Len(names) - 1) :
                 /\ Truthy(res[names[k]].stats)
                 /\ Truthy(res[names[k + 1]].stats)}}

\* the numbers of analyzed frames tried
AnalyzedCounts == 0..2

\* print_comparison after a run over the first n default streams in which
\* analyzed[i] frames of stream i were analyzed
CallPrintComparison ==
    /\ call = NoCall
    /\ \E n \in 1..Len(default_streams) :
       \E analyzed \in [1..n -> AnalyzedCounts] :
         LET names == SubSeq(default_streams, 1, n)
             res == [s \in {names[i] : i \in 1..n} |->
                       Analyzed(analyzed[CHOOSE i \in 1..n : names[i] = s])]
         IN  call' = [op |-> "compare", names |-> names,
                      analyzed |-> analyzed,
                      pairs |-> compared_pairs(names, res)]
    /\ UNCHANGED runVars

FunctionNext ==
    \/ CallReadChunk
    \/ CallConvert
    \/ CallComputeStatistics
    \/ CallPrintComparison
    \/ CallBandMasks

\* the functions are applied in the state the constructor leaves
FunctionInit == Init /\ duration = 0

FunctionSpec == FunctionInit /\ [][FunctionNext]_vars

\* ---------------------------------------------------------------- claims
\* the frame ids held by a queue, oldest first
Ids(q) == [i \in 1..Len(q) |-> q[i].id]

\* the worker of s has left its loop after a zero-byte read
SourceEnded(s) == raw_len[s] = 0

\* the worker of s has started the teardown of its source because it read
\* running = False at the head of its loop
StopTeardown(s) ==
    /\ \/ wpc[s] \in {"terminate", "wait"}
       \/ wpc[s] = "exited" /\ process[s] = "reaped"
    /\ ~SourceEnded(s)

\* C1: in every reachable state each stream's queue holds at most maxsize
\* entries, whatever the interleaving of its worker and the coordinator.
C1_BufferBounded == \A s \in Streams : Len(audio_queues[s]) <= maxsize

\* a worker was refused by a queue that holds maxsize entries
C1_Witness ==
    \E s \in Streams : wpc[s] = "full" /\ Len(audio_queues[s]) = maxsize

\* C2: every frame a worker produces is admitted to its queue; no worker
\* ever reaches the point (except: pass) where the new frame is given up.
C2_NewFrameAdmitted == \A s \in Streams : wpc[s] # "pass"

\* C3: from the empty queue, with no dequeue by the coordinator, once the
\* worker has handled maxsize + 1 frames the queue holds frames
\* 2 .. maxsize + 1, oldest first.
C3_MostRecentKept ==
    \A s \in Streams :
        ( /\ ProcessAlive
          /\ dequeued[s] = 0
          /\ produced[s] = maxsize + 1
          /\ wframe[s] = NoFrame )
        => Ids(audio_queues[s]) = [i \in 1..maxsize |-> i + 1]

\* the worker has evicted frame 1 and queued frame maxsize + 1
C3_Witness ==
    \E s \in Streams :
        /\ dequeued[s] = 0
        /\ produced[s] = maxsize + 1
        /\ wframe[s] = NoFrame
        /\ Len(audio_queues[s]) = maxsize
        /\ Head(audio_queues[s]).id = 2

\* the deadline of the drain loop has passed
DeadlinePassed == start_time # None /\ now - start_time >= duration

\* the steps the main thread has left in analyze_streams once the deadline
\* has passed: the rest of the current iteration, the loop test, the stop,
\* one join per thread and the report
StepsLeft ==
    CASE cpc = "get"     -> NumStreams + 6 + 2 * (NumStreams - cidx)
      [] cpc = "analyze" -> NumStreams + 5 + 2 * (NumStreams - cidx)
      [] cpc = "sleep"   -> NumStreams + 4
      [] cpc = "loop"    -> NumStreams + 3
      [] cpc = "stop"    -> NumStreams + 2
      [] cpc = "join"    -> NumStreams - cidx + 2
      [] cpc = "report"  -> 1
      [] OTHER           -> 0

\* C4: once the deadline has passed the main thread is never blocked,
\* whatever the workers do (a step of it is enabled in every state of
\* analyze_streams), and unless Ctrl+C is pressed each of its steps brings it
\* strictly closer to DONE, which it so reaches in at most 3 * NumStreams + 4
\* steps even when workers never leave a read or a wait.
C4_ReachesDone ==
    /\ []((DeadlinePassed /\ cpc \in InAnalyze) => ENABLED MainStep)
    /\ [][(DeadlinePassed /\ cpc \in InAnalyze /\ cpc' # "handled")
            => /\ StepsLeft' <= StepsLeft
               /\ (<<cpc, cidx>>' # <<cpc, cidx>> => StepsLeft' < StepsLeft)]_vars

\* analyze_streams has returned while a worker is still inside a read or a wait
C4_Witness ==
    /\ cpc = "done"
    /\ reported
    /\ \E s \in Streams : wpc[s] \in {"read", "wait"}

\* C5 as claimed: when a source has ended and the drain loop (of a positive
\* duration) ends while a frame that another source delivered before the
\* deadline is in that stream's queue, the history of that stream, to which
\* nothing is added after the loop, is non-empty.
C5_OthersNonEmpty ==
    [][\A s, t \in Streams :
         ( /\ cpc = "loop" /\ cpc' = "stop"
           /\ duration > 0
           /\ s # t
           /\ SourceEnded(s)
           /\ \E i \in 1..Len(audio_queues[t]) :
                 audio_queues[t][i].ts < start_time + duration )
         => results[t].snr_history # <<>>]_vars

\* C5 amended: the step in which a worker reads zero bytes changes nothing
\* but that worker (running, the queues, the other workers and the main
\* thread are as before), and at DONE the history of every other stream
\* from which the coordinator dequeued a frame is non-empty.
C5_ZeroReadIsolated ==
    /\ [][\A s \in Streams :
            (wpc[s] = "read" /\ wpc'[s] = "terminate")
            => /\ running' = running
               /\ audio_queues' = audio_queues
               /\ results' = results
               /\ coordVars' = coordVars
               /\ \A t \in Streams \ {s} : wpc'[t] = wpc[t]]_vars
    /\ [](\A s, t \in Streams :
            ( /\ cpc = "done"
              /\ s # t
              /\ SourceEnded(s)
              /\ dequeued[t] > 0 )
            => results[t].snr_history # <<>>)

\* one source has ended, the run is at DONE with running cleared by the
\* coordinator, and another stream has a history
C5_Witness ==
    \E s, t \in Streams :
        /\ cpc = "done"
        /\ s # t
        /\ SourceEnded(s)
        /\ wpc[s] = "exited"
        /\ results[t].snr_history # <<>>

\* C6: a Ctrl+C taken while the main thread is in the drain loop is handled
\* only after every worker has been joined and the counts have been reported.
C6_OrderlyInterrupt ==
    [][(cpc \in InLoop /\ cpc' = "handled")
         => (joined' = NumStreams /\ reported')]_vars

\* C7 as claimed: a worker that is inside a source read while running is
\* false eventually comes out of the read (to see the flag and exit).
C7_ReaderExits ==
    \A s \in Streams : (~running /\ wpc[s] = "read") ~> (wpc[s] # "read")

\* C7 amended: a worker that takes a step from the head of its loop while
\* running is false starts no read but the teardown of its source; the
\* teardown signals the source, then waits for it, then the thread ends; and a
\* thread that ended this way had read the flag as false.
C7_StopSeenAtLoopHead ==
    /\ [][\A s \in Streams :
            /\ (~running /\ wpc[s] = "loop" /\ wpc'[s] # "loop")
               => wpc'[s] \in {"terminate", "killed"}
            /\ (wpc[s] = "terminate" /\ wpc'[s] # "terminate")
               => \/ wpc'[s] = "killed"
                  \/ (wpc'[s] = "wait" /\ process'[s] = "terminated")
            /\ (wpc[s] = "wait" /\ wpc'[s] # "wait")
               => \/ wpc'[s] = "killed"
                  \/ (wpc'[s] = "exited" /\ process'[s] = "reaped")]_vars
    /\ [](\A s \in Streams : StopTeardown(s) => ~running)

\* a worker has seen the cleared flag, torn its source down and ended
C7_Witness ==
    \E s \in Streams :
        /\ ~running
        /\ StopTeardown(s)
        /\ wpc[s] = "exited"
        /\ process[s] = "reaped"

\* C8: running is false from the first join on, no worker is in a teardown
\* caused by the flag while the flag is still true, and the counts are
\* reported only after a join has returned for every worker.
C8_ShutdownOrdered ==
    /\ (joined > 0 \/ cpc \in {"join", "report", "done"}) => ~running
    /\ \A s \in Streams : StopTeardown(s) => ~running
    /\ reported => joined = NumStreams

\* the run is at DONE after a join on every worker, one of which ended on
\* the flag
C8_Witness ==
    /\ cpc = "done"
    /\ reported
    /\ joined = NumStreams
    /\ \E s \in Streams : StopTeardown(s) /\ wpc[s] = "exited"

\* C9: when running becomes false while the main thread is in the drain
\* loop, the main thread goes on to the stop and the joins.
C9_FlagEndsDrainLoop ==
    [][(cpc \in InLoop /\ running /\ ~running') => cpc' \in {"stop", "join"}]_vars

\* C10: between two frames of the coordinator (at the loop test, in the sleep,
\* before a get) and from the stop to DONE, for each stream the lengths of
\* snr_history and timestamp_history, the number of frames dequeued and
\* analysis_count are all equal.
C10_HistoryMatchesCount ==
    cpc \in {"get", "sleep", "loop", "stop", "join", "report", "done"}
    => \A s \in Streams :
        /\ Len(results[s].snr_history) = dequeued[s]
        /\ Len(results[s].timestamp_history) = dequeued[s]
        /\ analysis_count[s] = dequeued[s]

\* DONE with two frames of one stream analyzed
C10_Witness ==
    /\ cpc = "done"
    /\ \E s \in Streams :
        /\ analysis_count[s] = 2
        /\ Len(results[s].snr_history) = 2

\* s[1], s[2], ... is strictly increasing
Increasing(s) == \A i, j \in 1..Len(s) : i < j => s[i] < s[j]

\* s[1], s[2], ... is non-decreasing
NonDecreasing(s) == \A i, j \in 1..Len(s) : i < j => s[i] <= s[j]

\* C11: for each stream the frames stored so far, followed by the frame just
\* dequeued, are frames its worker produced, in production order (none twice),
\* and timestamp_history is non-decreasing.
C11_DequeuedInOrder ==
    \A s \in Streams :
        LET taken == IF cframe # NoFrame /\ s = name(cidx)
                     THEN <<cframe>> ELSE <<>>
            ids == results[s].snr_history \o Ids(taken)
            stamps == results[s].timestamp_history
                        \o [i \in 1..Len(taken) |-> taken[i].ts]
        IN  /\ Increasing(ids)
            /\ \A i \in 1..Len(ids) : ids[i] \in 1..produced[s]
            /\ NonDecreasing(stamps)

\* frame 1 was evicted; frames 2 and 3, stamped at different times, were
\* dequeued and stored in this order
C11_Witness ==
    \E s \in Streams :
        /\ results[s].snr_history = <<2, 3>>
        /\ results[s].timestamp_history[1] < results[s].timestamp_history[2]

\* C12: while the process lives, a step that changes results is a step of
\* the coordinator storing the frame it dequeued (no worker moves in it, only
\* the entry of the stream at hand changes), and running is true before and
\* after it: nothing is written once running is false.
C12_SingleWriter ==
    [][(results' # results /\ cpc' # "exit")
         => /\ cpc = "analyze"
            /\ cpc' \in {"get", "sleep"}
            /\ wpc' = wpc
            /\ \A s \in Streams \ {name(cidx)} : results'[s] = results[s]
            /\ running
            /\ running']_vars

\* the run is at DONE with running false and a history, while a worker that
\* is still alive is about to push a frame
C12_Witness ==
    /\ cpc = "done"
    /\ ~running
    /\ \E s \in Streams :
        /\ results[s].snr_history # <<>>
        /\ wpc[s] = "put"
        /\ wframe[s] # NoFrame

\* C19: a worker takes an entry out of its queue (get_nowait after Full) only
\* when the queue holds maxsize entries at that moment.
C19_EvictOnlyWhenFull ==
    [][\A s \in Streams :
         (wpc[s] = "full" /\ wpc'[s] = "reput")
         => Len(audio_queues[s]) = maxsize]_vars

\* C20: a capture thread whose function has returned after its source was
\* started has terminated the source: the source process is not left running.
C20_SourceTerminated ==
    \A s \in Streams : wpc[s] = "exited" => process[s] # "alive"

\* C13: a read of 1 .. chunk_bytes bytes gives a frame of exactly chunk_size
\* samples (a short read is padded to chunk_bytes), and the worker goes on to
\* put the frame in the queue; it does not leave its loop.
C13_ShortReadPadded ==
    (call.op = "read" /\ call.n >= 1)
    => /\ call.out.raw_len = chunk_bytes
       /\ call.out.samples = chunk_size
       /\ call.out.next = "put"

\* a read one byte short of a chunk gave a frame of chunk_size samples that
\* goes to the put
C13_Witness ==
    /\ call.op = "read"
    /\ call.n = chunk_bytes - 1
    /\ call.out.samples = chunk_size
    /\ call.out.next = "put"

\* C16: every 16-bit code c is converted to a value in [-1, 1): int16_min to
\* exactly -1, int16_max to a value below 1, and the value of c is below the
\* value of c + 1 (so the conversion is strictly increasing).
C16_PcmRange ==
    call.op = "convert"
    => LET c == call.code
           v == call.audio
       IN  /\ c \in int16_min..int16_max
           /\ ~RatLess(v, Rat(-1, 1))
           /\ RatLess(v, Rat(1, 1))
           /\ c = int16_min => RatEq(v, Rat(-1, 1))
           /\ c = int16_max => RatLess(v, Rat(1, 1))
           /\ c < int16_max => RatLess(v, Normalized(c + 1))

\* the bytes 00 80 are the smallest code and were converted to -1
C16_Witness ==
    /\ call.op = "convert"
    /\ call.lo = 0 /\ call.hi = 128
    /\ call.code = int16_min
    /\ RatEq(call.audio, Rat(-1, 1))

\* C14: for a frame and its spectrum (at least one bin), compute_statistics
\* raises nothing; a band whose mask is empty has the power -inf; the two
\* ratios are then still produced (-inf minus a finite power is -inf, -inf
\* minus -inf is not-a-number); and the coordinator appends the entry: the
\* histories end with snr_bird_to_low, bird_freq_power and low_freq_power.
C14_EmptyBandPropagates ==
    (call.op = "stats" /\ call.freq # <<>>)
    => /\ call.out.raised = "none"
       /\ LET st == call.out.stats
              f == call.freq
          IN  /\ low_mask(f) = {} => st.low_freq_power = NegInf
              /\ mid_mask(f) = {} => st.mid_freq_power = NegInf
              /\ bird_mask(f) = {} => st.bird_freq_power = NegInf
              /\ high_mask(f) = {} => st.high_freq_power = NegInf
              /\ (bird_mask(f) = {} /\ low_mask(f) # {})
                 => st.snr_bird_to_low = NegInf
              /\ (bird_mask(f) = {} /\ mid_mask(f) # {})
                 => st.snr_bird_to_mid = NegInf
              /\ (bird_mask(f) = {} /\ mid_mask(f) = {})
                 => st.snr_bird_to_mid = NaN
              /\ call.history.snr_history = <<st.snr_bird_to_low>>
              /\ call.history.bird_power_history = <<st.bird_freq_power>>
              /\ call.history.low_power_history = <<st.low_freq_power>>

\* all the bins are below 1000 Hz: the bird and mid masks are empty, the
\* ratio to the low band is -inf and was appended, the ratio to the mid band
\* is not-a-number
C14_Witness ==
    /\ call.op = "stats"
    /\ Len(call.freq) = 3
    /\ bird_mask(call.freq) = {}
    /\ mid_mask(call.freq) = {}
    /\ call.out.raised = "none"
    /\ call.out.stats.snr_bird_to_low = NegInf
    /\ call.out.stats.snr_bird_to_mid = NaN
    /\ call.history.snr_history = <<NegInf>>

\* C15: compute_statistics raises nothing and spectral_rolloff is the
\* frequency of the lowest bin whose cumulative power is at least 85% of the
\* total; it is 0 when no bin is such or when the power sequence is empty.
C15_Rolloff ==
    call.op = "stats"
    => /\ call.out.raised = "none"
       /\ LET p == call.psd_db
              reached == {i \in 1..Len(p) :
                            100 * SumOver(p, 1..i) >= 85 * SumOver(p, 1..Len(p))}
          IN  IF p = <<>> \/ reached = {}
              THEN RatEq(call.out.stats.spectral_rolloff, Rat(0, 1))
              ELSE /\ \E i \in reached :
                        /\ call.out.stats.spectral_rolloff = call.freq[i]
                        /\ \A j \in reached : i <= j

\* C17: for every frame the arguments of the logarithms of rms_db and
\* peak_db are the level, which is not negative, plus the floor, so both
\* values are finite; for an all-zero frame the argument of rms_db is the
\* floor alone: rms_db = 20 log10(floor).
C17_LevelsFloored ==
    call.op = "stats"
    => LET lv == call.levels
           AtLeastFloor(x) == x.floor >= 1 /\ x.level.num >= 0 /\ x.level.den > 0
       IN  /\ AtLeastFloor(lv.rms_db.of)
           /\ AtLeastFloor(lv.peak_db.of)
           /\ lv.rms_db.kind = "fin"
           /\ lv.peak_db.kind = "fin"
           /\ (\A i \in 1..Len(call.audio_data) : call.audio_data[i] = 0)
              => /\ RatEq(lv.rms_db.of.level, Rat(0, 1))
                 /\ lv.rms_db.of.floor = 1
                 /\ lv.rms_db.kind = "fin"

\* the statistics of a silent frame of several samples: rms_db is finite,
\* the logarithm of the floor
C17_Witness ==
    /\ call.op = "stats"
    /\ call.out.raised = "none"
    /\ Len(call.audio_data) = 2
    /\ \A i \in 1..Len(call.audio_data) : call.audio_data[i] = 0
    /\ call.levels.rms_db.kind = "fin"
    /\ call.levels.rms_db.of = add_floor(Rat(0, 2))

\* C18: for n streams the deltas are printed for the pair (a, b) exactly when
\* a and b are streams i and i + 1 of the configuration, for some i, and at
\* least one frame of each was analyzed; so at most n - 1 pairs, and never
\* two streams that are not neighbours.
C18_ConsecutivePairs ==
    call.op = "compare"
    => LET names == call.names
           n == Len(names)
           S == {names[i] : i \in 1..n}
       IN  /\ \A a, b \in S :
                <<a, b>> \in call.pairs
                <=> \E i \in 1..(n - 1) :
                       /\ a = names[i] /\ b = names[i + 1]
                       /\ call.analyzed[i] > 0 /\ call.analyzed[i + 1] > 0
           /\ call.pairs \subseteq S \X S
           /\ Cardinality(call.pairs) <= n - 1
           /\ (\A i \in 1..n : call.analyzed[i] > 0)
              => Cardinality(call.pairs) = n - 1

\* three streams, the middle one without data: nothing is compared, although
\* the first and the last have data
C18_Witness ==
    /\ call.op = "compare"
    /\ Len(call.names) = 3
    /\ call.analyzed[1] > 0 /\ call.analyzed[2] = 0 /\ call.analyzed[3] > 0
    /\ call.pairs = {}

\* ------------------------------------------------ the start of the run
\* the clock when running was set (IDLE -> RUNNING): the clock starts there
TransitionTime == 0

\* C21 as claimed: the deadline is recorded when the warm-up wait begins, no
\* dequeue is attempted before the warm-up interval is over, and an
\* iteration of the drain loop starts only while less than duration has
\* elapsed since the transition.
C21_DeadlineBeforeWarmUp ==
    /\ cpc = "warmup" => start_time # None
    /\ cpc \in {"get", "analyze"} => now >= TransitionTime + warmup_seconds
    /\ (cpc = "get" /\ cidx = 1) => now - TransitionTime < duration

\* C21: the start of the duration is recorded after the warm-up wait (not
\* before the wait is over, and so the warm-up interval after the
\* transition); no dequeue is attempted before; an iteration of the drain
\* loop starts only while less than duration has elapsed since the recorded
\* start, that is less than warm-up + duration since the transition, and the
\* loop is left only when no less has elapsed.
C21_StartAfterWarmUp ==
    /\ cpc \in {"start", "spawn", "warmup", "init"} => start_time = None
    /\ start_time # None => start_time = TransitionTime + warmup_seconds
    /\ cpc \in {"get", "analyze"} => now >= TransitionTime + warmup_seconds
    /\ \A s \in Streams :
        dequeued[s] > 0 => now >= TransitionTime + warmup_seconds
    /\ (cpc = "get" /\ cidx = 1)
       => /\ now - start_time < duration
          /\ now - TransitionTime < warmup_seconds + duration
    /\ cpc = "stop" => now - start_time >= duration

\* the first dequeue attempt of a run of one second: the warm-up interval
\* has elapsed and the start was recorded at its end
C21_Witness ==
    /\ cpc = "get" /\ cidx = 1
    /\ duration = 1
    /\ \A s \in Streams : dequeued[s] = 0
    /\ start_time = TransitionTime + warmup_seconds
    /\ now = start_time

\* ------------------------------------------------ the drain loop
\* the main thread takes a step of analyze_streams (no Ctrl+C)
CoordStep == <<cpc, cidx>>' # <<cpc, cidx>> /\ cpc' \notin {"handled", "exit"}

\* after the attempt on stream cidx comes the attempt on the next stream of
\* the configuration, after the last one the sleep
NextAttempt ==
    IF cidx < NumStreams
    THEN cpc' = "get" /\ cidx' = cidx + 1
    ELSE cpc' = "sleep"

\* C22: an iteration of the drain loop starts with an attempt on the first
\* stream; an attempt on a stream whose queue is empty takes nothing and is
\* followed by the attempt on the next stream (by the sleep after the last
\* stream); an attempt on a non-empty queue takes exactly its head and
\* nothing from any other queue, and after the analysis the next stream is
\* attempted; frames are taken by the coordinator only in an attempt.  So in
\* an iteration every stream is attempted once, in configuration order, and
\* at most one frame of it is consumed.
C22_OneAttemptPerStream ==
    [][/\ (cpc = "loop" /\ cpc' = "get") => cidx' = 1
       /\ (cpc = "get" /\ CoordStep)
          => IF audio_queues[name(cidx)] = <<>>
             THEN /\ NextAttempt
                  /\ dequeued' = dequeued
                  /\ audio_queues' = audio_queues
                  /\ results' = results
             ELSE /\ cpc' = "analyze" /\ cidx' = cidx
                  /\ dequeued' = [dequeued EXCEPT ![name(cidx)] = @ + 1]
                  /\ audio_queues' =
                        [audio_queues EXCEPT ![name(cidx)] = Tail(@)]
                  /\ cframe' = Head(audio_queues[name(cidx)])
       /\ (cpc = "analyze" /\ CoordStep)
          => /\ NextAttempt
             /\ dequeued' = dequeued
       /\ (cpc = "sleep" /\ CoordStep) => cpc' = "loop"
       /\ dequeued' # dequeued => cpc = "get"
      ]_vars

\* the queue of the first stream was empty at each of its attempts, and in
\* the same iteration a frame of the second stream was taken
C22_Witness ==
    /\ cpc = "analyze" /\ cidx = 2
    /\ dequeued[name(1)] = 0
    /\ dequeued[name(2)] = 1
    /\ cframe.id = 1

\* the steps the main thread has left before the next test of the loop
\* condition, at most: an attempt and an analysis per stream still to come,
\* and the sleep
ToLoopTest ==
    CASE cpc = "get"     -> 2 * (NumStreams - cidx + 1) + 1
      [] cpc = "analyze" -> 2 * (NumStreams - cidx) + 2
      [] cpc = "sleep"   -> 1
      [] OTHER           -> 0

\* C23: at the loop test a new iteration starts exactly when the time since
\* the recorded start is less than duration, and the loop is left exactly
\* when it is not, whatever was dequeued or analyzed (so at once when
\* duration is 0); inside an iteration the main thread is never blocked,
\* whatever the queues hold, and unless Ctrl+C is pressed each of its steps
\* brings it closer to the next loop test, reached in at most
\* 2 * NumStreams + 1 steps; the clock never goes back.  With empty queues
\* every iteration spends its timeouts and its sleep, so the deadline comes
\* and the loop ends.
C23_ExitByClockOnly ==
    /\ [][(cpc = "loop" /\ CoordStep)
            => /\ cpc' = "get" <=> now - start_time < duration
               /\ cpc' = "stop" <=> now - start_time >= duration]_vars
    /\ [](cpc \in InLoop => ENABLED MainStep)
    /\ [][(cpc \in {"get", "analyze", "sleep"} /\ CoordStep)
            => ToLoopTest' < ToLoopTest]_vars
    /\ [][now' >= now]_vars

\* the loop of a run of one second has ended although no source delivered a
\* frame: nothing was ever in a queue
C23_Witness ==
    /\ cpc = "stop"
    /\ duration = 1
    /\ now - start_time >= duration
    /\ \A s \in Streams :
        produced[s] = 0 /\ dequeued[s] = 0 /\ audio_queues[s] = <<>>

\* ------------------------------------------------ who touches a queue
\* the step adds an entry to the queue of s / takes one out of it
Added(s) == Len(audio_queues'[s]) > Len(audio_queues[s])
Removed(s) == Len(audio_queues'[s]) < Len(audio_queues[s])

\* the step is one of the capture thread of s and of no other thread
StepOfWorker(s) ==
    /\ wpc'[s] # wpc[s]
    /\ \A t \in Streams \ {s} : wpc'[t] = wpc[t]
    /\ <<cpc, cidx>>' = <<cpc, cidx>>

\* the step is the coordinator's get on the queue of s
StepOfCoordinatorGet(s) ==
    /\ cpc = "get" /\ name(cidx) = s /\ cpc' = "analyze"
    /\ wpc' = wpc

\* C24 as claimed: while the process lives, an entry is added to the queue
\* of s only by the capture thread of s, an entry is taken out of it only by
\* the coordinator, and a step of the capture thread of s leaves the queues
\* of the other streams alone.
C24_OneProducerOneConsumer ==
    [][cpc' # "exit"
       => \A s \in Streams :
            /\ Added(s) => StepOfWorker(s)
            /\ Removed(s) => StepOfCoordinatorGet(s)
            /\ StepOfWorker(s)
               => \A t \in Streams \ {s} : audio_queues'[t] = audio_queues[t]
      ]_vars

\* C24: while the process lives, an entry is added to the queue of s only by
\* the capture thread of s (its put or its second put); an entry is taken
\* out of it by the coordinator's get or by the capture thread of s itself,
\* which evicts the head after a refused put; a step of the capture thread
\* of s leaves the queues of the other streams alone, and a get of the
\* coordinator touches the queue of one stream only.
C24_OneProducerTwoConsumers ==
    [][cpc' # "exit"
       => \A s \in Streams :
            /\ Added(s)
               => /\ StepOfWorker(s)
                  /\ wpc[s] \in {"put", "reput"}
                  /\ audio_queues'[s] = Append(audio_queues[s], wframe[s])
            /\ Removed(s)
               => /\ \/ StepOfCoordinatorGet(s)
                     \/ StepOfWorker(s) /\ wpc[s] = "full" /\ wpc'[s] = "reput"
                  /\ audio_queues'[s] = Tail(audio_queues[s])
            /\ (StepOfWorker(s) \/ StepOfCoordinatorGet(s))
               => \A t \in Streams \ {s} : audio_queues'[t] = audio_queues[t]
      ]_vars

\* a capture thread has taken the oldest frame out of its own queue: the
\* coordinator has taken none, and frame 1 is gone
C24_Witness ==
    \E s \in Streams :
        /\ wpc[s] = "reput"
        /\ dequeued[s] = 0
        /\ Len(audio_queues[s]) = maxsize - 1
        /\ Head(audio_queues[s]).id = 2

\* ------------------------------------------------ the axis and the bands
\* the bins of the axis whose frequency is hz
BinsAt(freq, hz) == {i \in DOMAIN freq : RatEq(freq[i], Rat(hz, 1))}

\* C25: every bin of a frequency axis is selected by exactly one of the four
\* masks (they are pairwise disjoint and cover the axis); a bin at 1000 Hz is
\* in the mid band, a bin at 3000 Hz and a bin at 8000 Hz are in the bird
\* band; the bins below 1000 Hz are the low band and those above 8000 Hz
\* the high band.
C25_BandsPartition ==
    call.op = "masks"
    => LET f == call.freq
           bands == <<call.low, call.mid, call.bird, call.high>>
       IN  /\ \A i \in DOMAIN f :
                Cardinality({b \in 1..4 : i \in bands[b]}) = 1
           /\ \A b, c \in 1..4 : b # c => bands[b] \cap bands[c] = {}
           /\ call.low \cup call.mid \cup call.bird \cup call.high = DOMAIN f
           /\ BinsAt(f, low_edge) \subseteq call.mid
           /\ BinsAt(f, mid_edge) \subseteq call.bird
           /\ BinsAt(f, bird_edge) \subseteq call.bird
           /\ \A i \in DOMAIN f :
                /\ i \in call.low <=> f[i].num < low_edge * f[i].den
                /\ i \in call.high <=> f[i].num > bird_edge * f[i].den

\* an axis with a bin at each edge, 1000, 3000 and 8000 Hz: bins in the low,
\* mid and bird bands, none above 8000 Hz
C25_Witness ==
    /\ call.op = "masks"
    /\ BinsAt(call.freq, low_edge) # {}
    /\ BinsAt(call.freq, mid_edge) # {}
    /\ BinsAt(call.freq, bird_edge) # {}
    /\ BinsAt(call.freq, low_edge) \subseteq call.mid
    /\ BinsAt(call.freq, bird_edge) \subseteq call.bird
    /\ call.low # {} /\ call.high = {}

\* C26: the axis of a frame of N samples at the rate R has N // 2 + 1 bins,
\* bin k (from 0) is k * R / N, the first bin is 0 and the bins are strictly
\* ascending; for N = 4 and R = 4 the bins are 0, 1, 2, all in the low band,
\* and the mid, bird and high masks are empty.
C26_FrequencyAxis ==
    call.op = "masks"
    => LET f == call.freq
       IN  /\ Len(f) = call.N \div 2 + 1
           /\ \A k \in 0..(call.N \div 2) :
                /\ f[k + 1].den > 0
                /\ f[k + 1].num * call.N = k * call.R * f[k + 1].den
           /\ RatEq(f[1], Rat(0, 1))
           /\ \A i, j \in DOMAIN f : i < j => RatLess(f[i], f[j])
           /\ (call.N = 4 /\ call.R = 4)
              => /\ Len(f) = 3
                 /\ \A k \in 0..2 : RatEq(f[k + 1], Rat(k, 1))
                 /\ call.low = {1, 2, 3}
                 /\ call.mid = {} /\ call.bird = {} /\ call.high = {}

\* the axis of four samples at 4 Hz: three bins, all of them low
C26_Witness ==
    /\ call.op = "masks"
    /\ call.N = 4 /\ call.R = 4
    /\ Len(call.freq) = 3
    /\ RatEq(call.freq[3], Rat(2, 1))
    /\ call.low = {1, 2, 3}
    /\ call.mid \cup call.bird \cup call.high = {}

\* ------------------------------------------------ the flag and the workers
\* the capture thread of s has left its loop at the loop test (not through a
\* zero-byte read) before any read returned
LeftBeforeFirstRead(s) ==
    /\ wpc[s] = "terminate" \/ process[s] \in {"terminated", "reaped"}
    /\ raw_len[s] = None

\* the positions of the main thread after running was set back to False
AfterStop == {"join", "report", "done", "handled", "exit"}

\* C27 as claimed: running is True when the threads are started, and while
\* the process lives no capture thread leaves its loop at the loop test
\* before it has read from its source.
C27_NoExitBeforeRead ==
    /\ cpc = "spawn" => running
    /\ ProcessAlive => \A s \in Streams : ~LeftBeforeFirstRead(s)

\* C27: running is True when the threads are started and stays so until the
\* main thread sets it back (after the drain loop, or on Ctrl+C); a capture
\* thread leaves its loop at the loop test before its first read only after
\* that: it never finds the flag still unset.
C27_FlagSetBeforeStart ==
    /\ (cpc \in InAnalyze \ {"start", "join", "report"}) => running
    /\ \A s \in Streams :
        /\ (wpc[s] # "unstarted" /\ cpc \notin AfterStop) => running
        /\ LeftBeforeFirstRead(s) => cpc \in AfterStop

\* a capture thread that reached its loop only after the drain loop was over
\* (no Ctrl+C): it leaves without a read, its source started and never read
C27_Witness ==
    /\ cpc = "join"
    /\ ~running
    /\ \E s \in Streams :
        /\ wpc[s] = "terminate"
        /\ raw_len[s] = None
        /\ process[s] = "alive"

\* ------------------------------------------------ where the frames are
\* frames of s analyzed so far (one entry of the history each)
AnalyzedFrames(s) == Len(results[s].snr_history)

\* the frame the capture thread of s holds and has not yet queued or given up
InHand(s) == IF wframe[s] # NoFrame THEN 1 ELSE 0

\* the frame of s the coordinator has dequeued and not yet stored
BeingAnalyzed(s) == IF cpc = "analyze" /\ name(cidx) = s THEN 1 ELSE 0

\* the frames of s from the oldest analyzed to the one in the worker's hand
Whereabouts(s) ==
    results[s].snr_history
    \o (IF BeingAnalyzed(s) = 1 THEN <<cframe.id>> ELSE <<>>)
    \o Ids(audio_queues[s])
    \o (IF InHand(s) = 1 THEN <<wframe[s].id>> ELSE <<>>)

\* C28 as claimed: while the process lives, for each stream the frames
\* produced are the frames analyzed, the frames evicted, the frames in the
\* queue and one more when the worker holds a frame or has given one up; no
\* frame is analyzed twice.
C28_FramesConserved ==
    ProcessAlive
    => \A s \in Streams :
        /\ produced[s] =
              AnalyzedFrames(s) + discarded[s].evicted + Len(audio_queues[s])
              + (IF InHand(s) = 1 \/ discarded[s].dropped > 0 THEN 1 ELSE 0)
        /\ Increasing(results[s].snr_history)

\* C28: while the process lives, for each stream the frames produced are the
\* frames the coordinator has dequeued, the frames evicted, the frames in
\* the queue, the frame the worker holds (it holds one exactly from the read
\* to the put or to the pass) and all the frames it has given up; the frames
\* dequeued are the frames analyzed and at most one more, the frame being
\* analyzed or the frame whose analysis Ctrl+C cut off; and the analyzed
\* frames, the frame being analyzed, the queued frames and the frame in the
\* worker's hand are distinct frames in the order of their production, so no
\* frame is analyzed twice.
C28_FramesAccounted ==
    ProcessAlive
    => \A s \in Streams :
        /\ produced[s] =
              dequeued[s] + discarded[s].evicted + Len(audio_queues[s])
              + InHand(s) + discarded[s].dropped
        /\ InHand(s) = 1 <=> wpc[s] \in {"put", "full", "reput", "pass"}
        /\ dequeued[s] - AnalyzedFrames(s) \in {0, 1}
        /\ cpc # "handled"
           => dequeued[s] = AnalyzedFrames(s) + BeingAnalyzed(s)
        /\ Increasing(Whereabouts(s))
        /\ \A i \in 1..Len(Whereabouts(s)) :
             Whereabouts(s)[i] \in 1..produced[s]

\* three frames of a stream: the first was evicted, the second analyzed, the
\* third is in the queue
C28_Witness ==
    \E s \in Streams :
        /\ ProcessAlive
        /\ produced[s] = 3
        /\ discarded[s].evicted = 1
        /\ results[s].snr_history = <<2>>
        /\ Ids(audio_queues[s]) = <<3>>
        /\ InHand(s) = 0

\* ------------------------------------------------ pushes after the stop
\* running has been set back to False
Stopped == ~running /\ cpc \in AfterStop

\* the pushes the capture thread of s can still make without a new test of
\* the flag: one while it is in a read or holds a frame it has not given up
PushesLeft(s) ==
    IF wpc[s] \in {"read", "put", "full", "reput"} THEN 1 ELSE 0

\* C29: once running has been set back to False it stays False; from then
\* on the number of pushes a capture thread can still make never grows, it
\* is 1 only for a thread that was in a read or held a frame, and every push
\* (an entry added to the queue) takes it from 1 to 0.  So each thread adds
\* at most one more frame, that of the iteration it was in, and none after
\* it has left its loop.
C29_OnePushAfterStop ==
    [][Stopped
       => /\ Stopped'
          /\ \A s \in Streams :
               /\ PushesLeft(s)' <= PushesLeft(s)
               /\ Added(s) => PushesLeft(s) = 1 /\ PushesLeft(s)' = 0
               /\ (wpc[s] \in {"terminate", "wait", "exited"} /\ cpc' # "exit")
                  => audio_queues'[s] = audio_queues[s]
      ]_vars

\* a run of duration 0, stopped right after the warm-up: the queue of a
\* thread that has left its loop ends with a frame read later than that, so
\* pushed after the stop
C29_Witness ==
    /\ duration = 0
    /\ Stopped
    /\ cpc \in {"join", "report", "done"}
    /\ \E s \in Streams :
        /\ wpc[s] = "terminate"
        /\ audio_queues[s] # <<>>
        /\ audio_queues[s][Len(audio_queues[s])].ts
              > TransitionTime + warmup_seconds

\* ------------------------------------------------ the results of a stream
\* the positions of the main thread between two iterations of the drain
\* loop, and from the end of the loop to DONE
AtBoundary == {"loop", "sleep", "stop", "join", "report", "done"}

\* C30: between two iterations of the drain loop and from its end to DONE,
\* for each stream the four histories have the same length; stats is not
\* empty, and freq and psd are set, exactly when that length is not 0; and
\* then the latest stats are those of the last entry of each history.
C30_HistoriesAligned ==
    cpc \in AtBoundary
    => \A s \in Streams :
        LET r == results[s]
            n == Len(r.snr_history)
        IN  /\ Len(r.timestamp_history) = n
            /\ Len(r.bird_power_history) = n
            /\ Len(r.low_power_history) = n
            /\ Truthy(r.stats) <=> n > 0
            /\ r.freq # None <=> n > 0
            /\ r.psd # None <=> n > 0
            /\ n > 0 => /\ r.snr_history[n] = r.stats
                        /\ r.bird_power_history[n] = r.stats
                        /\ r.low_power_history[n] = r.stats
                        /\ r.freq = r.stats /\ r.psd = r.stats

\* DONE: two frames of one stream were analyzed, the latest stats are those
\* of the second; nothing of another stream, whose stats are empty
C30_Witness ==
    /\ cpc = "done"
    /\ \E s, t \in Streams :
        /\ Len(results[s].snr_history) = 2
        /\ Len(results[s].low_power_history) = 2
        /\ results[s].stats = results[s].snr_history[2]
        /\ results[t].snr_history = <<>>
        /\ ~Truthy(results[t].stats)

====
